---- MODULE Spec2Model ----
(***************************************************************************)
(* Model of the automatic-OCR plugin of src/main.ts (class OCRPlugin).     *)
(*                                                                         *)
(* Texts are sequences of one-character strings.  The string functions of  *)
(* the host language that the plugin relies on (String.replace with a      *)
(* string pattern, the two image-link regular expressions, diffChars of    *)
(* the "diff" package) are operators that compute what those functions     *)
(* compute.  The event loop is modelled at the granularity of macrotasks:  *)
(* one action is one user gesture, one delivered 'editor-change' event,    *)
(* one completed OCR task (its .then callback) or one resumed tail of an   *)
(* async handler.                                                          *)
(***************************************************************************)
EXTENDS Integers, Sequences, FiniteSets, TLC

\* ------------------------------------------------------------------ bounds
\* Number of user gestures (edits, toggles, commands, view switches) in a run.
MaxSteps == 3
\* Longest document text the user's gestures may produce.
MaxDocLen == 13
\* The number of pieces of an input text.
MaxPieces == 3
\* The longest run of white space in a recognized formula.
MaxSpaces == 2

\* ------------------------------------------------------------- text basics
Min(a, b) == IF a < b THEN a ELSE b
Max(a, b) == IF a > b THEN a ELSE b

\* s.substring(i, j), with 0-based i (inclusive) and j (exclusive).
Sub(s, i, j) == IF j <= i THEN << >> ELSE SubSeq(s, i + 1, j)

\* s.startsWith(p, i), 0-based i.
StartsAt(s, p, i) ==
    /\ i >= 0
    /\ i + Len(p) <= Len(s)
    /\ \A k \in 1..Len(p) : s[i + k] = p[k]

\* s.indexOf(p, from): the least 0-based index >= from where p occurs, -1 if none.
IndexOfFrom(s, p, from) ==
    LET hits == {i \in from..(Len(s) - Len(p)) : StartsAt(s, p, i)}
    IN  IF hits = {} THEN -1 ELSE CHOOSE i \in hits : \A j \in hits : i <= j

IndexOf(s, p) == IndexOfFrom(s, p, 0)

Contains(s, p) == IndexOf(s, p) >= 0

\* The characters the regular expressions treat specially.
NL == "\n"
SP == " "
IsLineTerminator(c) == c = NL
IsSpace(c) == c \in {SP, NL}

\* ------------------------------------------------ String.prototype.replace
\* The expansion of a replacement string (ECMAScript GetSubstitution) for a
\* match without capture groups: "$$" inserts "$", "$&" the matched text,
\* "$" with a grave accent the text before the match and "$'" the text after
\* it; every other character, a "$" followed by anything else included, is
\* copied.  GRAVE stands for the grave accent (U+0060), which a string of
\* this language cannot hold.
GRAVE == "grave"
RECURSIVE GetSubstitution(_, _, _, _, _)
GetSubstitution(repl, i, matched, before, after) ==
    IF i > Len(repl) THEN << >>
    ELSE IF repl[i] = "$" /\ i < Len(repl) /\ repl[i + 1] \in {"$", "&", GRAVE, "'"}
         THEN (CASE repl[i + 1] = "$" -> <<"$">>
                 [] repl[i + 1] = "&" -> matched
                 [] repl[i + 1] = GRAVE -> before
                 [] OTHER -> after)
              \o GetSubstitution(repl, i + 2, matched, before, after)
         ELSE <<repl[i]>> \o GetSubstitution(repl, i + 1, matched, before, after)

\* s.replace(pat, repl) with a string pattern: only the first occurrence of
\* pat is replaced, by the expansion of repl; s is returned when pat is absent.
JSReplace(s, pat, repl) ==
    LET at == IndexOf(s, pat)
    IN  IF at < 0 THEN s
        ELSE LET before == Sub(s, 0, at)
                 after == Sub(s, at + Len(pat), Len(s))
             IN  before \o GetSubstitution(repl, 1, pat, before, after) \o after

\* ------------------------------------------------------ image-link scanner
NoMatch == [ok |-> FALSE, full |-> << >>, path |-> << >>, at |-> 0, end |-> 0]

\* The least index >= from whose character is in the set cs, -1 if none.
FirstCharIn(s, cs, from) ==
    LET hits == {i \in from..(Len(s) - 1) : s[i + 1] \in cs}
    IN  IF hits = {} THEN -1 ELSE CHOOSE i \in hits : \A j \in hits : i <= j

HasLineTerminator(s, i, j) == \E k \in i..(j - 1) : IsLineTerminator(s[k + 1])

\* !\[\[([^\]]+)\]\] tried at index i: "![[", the longest run of characters
\* other than "]" (at least one), then "]]".  The run ends at the first "]",
\* and giving characters back cannot help since the next one is then no "]".
EmbedAt(s, i) ==
    IF ~StartsAt(s, <<"!", "[", "[">>, i) THEN NoMatch
    ELSE LET j == FirstCharIn(s, {"]"}, i + 3)
         IN  IF j >= i + 4 /\ StartsAt(s, <<"]", "]">>, j)
             THEN [ok |-> TRUE, full |-> Sub(s, i, j + 2), path |-> Sub(s, i + 3, j),
                   at |-> i, end |-> j + 2]
             ELSE NoMatch

\* !\[.*?\]\((.*?)\) tried at index i: "![", the shortest run of characters
\* other than line terminators that is followed by "](", then the shortest
\* such run that is followed by ")".
LazyLinkAt(s, i) ==
    IF ~StartsAt(s, <<"!", "[">>, i) THEN NoMatch
    ELSE LET js == {j \in (i + 2)..(Len(s) - 2) :
                        /\ StartsAt(s, <<"]", "(">>, j)
                        /\ ~HasLineTerminator(s, i + 2, j)
                        /\ \E k \in (j + 2)..(Len(s) - 1) :
                              s[k + 1] = ")" /\ ~HasLineTerminator(s, j + 2, k)}
         IN  IF js = {} THEN NoMatch
             ELSE LET j == CHOOSE x \in js : \A y \in js : x <= y
                      k == FirstCharIn(s, {")"}, j + 2)
                  IN  [ok |-> TRUE, full |-> Sub(s, i, k + 1), path |-> Sub(s, j + 2, k),
                       at |-> i, end |-> k + 1]

\* !\[[^\]]*\]\(([^)]+)\) tried at index i: "![", the run up to the first "]",
\* "](", the run up to the first ")" (at least one character), ")".
StrictLinkAt(s, i) ==
    IF ~StartsAt(s, <<"!", "[">>, i) THEN NoMatch
    ELSE LET j == FirstCharIn(s, {"]"}, i + 2)
             k == IF j < 0 THEN -1 ELSE FirstCharIn(s, {")"}, j + 2)
         IN  IF j >= 0 /\ StartsAt(s, <<"]", "(">>, j) /\ k >= j + 3
             THEN [ok |-> TRUE, full |-> Sub(s, i, k + 1), path |-> Sub(s, j + 2, k),
                   at |-> i, end |-> k + 1]
             ELSE NoMatch

\* /!\[\[([^\]]+)\]\]|!\[.*?\]\((.*?)\)/ at index i; imagePath is match[1] || match[2].
\* Mutant: the expression without its first alternative.
AutoRegexAtLinkOnly(s, i) == LazyLinkAt(s, i)

AutoRegexAt(s, i) == IF EmbedAt(s, i).ok THEN EmbedAt(s, i) ELSE LazyLinkAt(s, i)

\* /(!\[\[([^\]]+)\]\])|(!\[[^\]]*\]\(([^)]+)\))/ at index i; imagePath is match[2] || match[4].
AllRegexAt(s, i) == IF EmbedAt(s, i).ok THEN EmbedAt(s, i) ELSE StrictLinkAt(s, i)

\* The while ((match = regex.exec(text)) !== null) loop of a global regular
\* expression: the leftmost match at or after lastIndex, then on from its end.
RECURSIVE ExecAuto(_, _)
ExecAuto(s, lastIndex) ==
    LET hits == {i \in lastIndex..(Len(s) - 1) : AutoRegexAt(s, i).ok}
    IN  IF hits = {} THEN << >>
        ELSE LET i == CHOOSE x \in hits : \A y \in hits : x <= y
                 m == AutoRegexAt(s, i)
             IN  <<m>> \o ExecAuto(s, m.end)

RECURSIVE ExecAll(_, _)
ExecAll(s, lastIndex) ==
    LET hits == {i \in lastIndex..(Len(s) - 1) : AllRegexAt(s, i).ok}
    IN  IF hits = {} THEN << >>
        ELSE LET i == CHOOSE x \in hits : \A y \in hits : x <= y
                 m == AllRegexAt(s, i)
             IN  <<m>> \o ExecAll(s, m.end)

\* -------------------------------------------------- diffChars / getAddedText
NoPath == [ok |-> FALSE, oldPos |-> -1, added |-> << >>]

\* extractCommon: slide down the diagonal while the next characters agree;
\* the result is the path's new oldPos (newPos is oldPos - diagonalPath).
RECURSIVE ExtractCommon(_, _, _, _)
ExtractCommon(old, new, oldPos, diagonalPath) ==
    LET newPos == oldPos - diagonalPath
    IN  IF newPos + 1 < Len(new) /\ oldPos + 1 < Len(old) /\ old[oldPos + 2] = new[newPos + 2]
        THEN ExtractCommon(old, new, oldPos + 1, diagonalPath)
        ELSE oldPos

\* execEditLength of the diff package, iterated over the edit lengths: for
\* each diagonal of the current edit length the better of the two neighbouring
\* paths is extended by one insertion or one removal and slid down its
\* diagonal; the first path to reach the end of both texts is the result.
\* Only the inserted characters of a path are kept (path.added).
RECURSIVE ExecEditLength(_, _, _, _, _, _, _)
ExecEditLength(old, new, bestPath, editLength, diagonalPath, minDiag, maxDiag) ==
    IF editLength > Len(old) + Len(new) THEN << >>
    ELSE IF diagonalPath > Min(maxDiag, editLength)
    THEN ExecEditLength(old, new, bestPath, editLength + 1,
                        Max(minDiag, -(editLength + 1)), minDiag, maxDiag)
    ELSE
      LET removePath == bestPath[diagonalPath - 1]
          addPath == bestPath[diagonalPath + 1]
          cleared == IF removePath.ok THEN [bestPath EXCEPT ![diagonalPath - 1] = NoPath]
                     ELSE bestPath
          addPathNewPos == addPath.oldPos - diagonalPath
          canAdd == addPath.ok /\ 0 <= addPathNewPos /\ addPathNewPos < Len(new)
          canRemove == removePath.ok /\ removePath.oldPos + 1 < Len(old)
      IN  IF ~canAdd /\ ~canRemove
          THEN ExecEditLength(old, new, [cleared EXCEPT ![diagonalPath] = NoPath],
                              editLength, diagonalPath + 2, minDiag, maxDiag)
          ELSE
            LET basePath ==
                    IF ~canRemove \/ (canAdd /\ removePath.oldPos + 1 < addPath.oldPos)
                    THEN [ok |-> TRUE, oldPos |-> addPath.oldPos,
                          added |-> Append(addPath.added, new[addPathNewPos + 1])]
                    ELSE [ok |-> TRUE, oldPos |-> removePath.oldPos + 1,
                          added |-> removePath.added]
                oldPos == ExtractCommon(old, new, basePath.oldPos, diagonalPath)
                newPos == oldPos - diagonalPath
            IN  IF oldPos + 1 >= Len(old) /\ newPos + 1 >= Len(new)
                THEN basePath.added
                ELSE ExecEditLength(old, new,
                        [cleared EXCEPT ![diagonalPath] = [basePath EXCEPT !.oldPos = oldPos]],
                        editLength, diagonalPath + 2,
                        IF newPos + 1 >= Len(new) THEN Max(minDiag, diagonalPath + 1) ELSE minDiag,
                        IF oldPos + 1 >= Len(old) THEN Min(maxDiag, diagonalPath - 1) ELSE maxDiag)

\* getAddedText: the concatenation, in order, of the parts diffChars marks added.
\* Mutant: the whole new text counts as added.
getAddedTextWhole(oldText, newText) == newText

getAddedText(oldText, newText) ==
    LET n == Len(oldText) + Len(newText) + 1
        oldPos0 == ExtractCommon(oldText, newText, -1, 0)
        seed == [k \in (-n - 1)..(n + 1) |->
                    IF k = 0 THEN [ok |-> TRUE, oldPos |-> oldPos0, added |-> << >>]
                    ELSE NoPath]
    IN  IF oldPos0 + 1 >= Len(oldText) /\ oldPos0 + 1 >= Len(newText) THEN << >>
        ELSE ExecEditLength(oldText, newText, seed, 1, -1, -n, n)

\* --------------------------------------------------------------- removeBlanks
\* p1.trim(): the text without its leading and trailing white space.
RECURSIVE Trim(_)
Trim(s) ==
    IF s = << >> THEN s
    ELSE IF IsSpace(s[1]) THEN Trim(Tail(s))
    ELSE IF IsSpace(s[Len(s)]) THEN Trim(Sub(s, 0, Len(s) - 1))
    ELSE s

\* result.replace(/\$(.*?)\$/g, (_match, p1) => `$${p1.trim()}$`), from index i:
\* a "$", the shortest run without line terminators up to the next "$"; the
\* run is trimmed; the search goes on after the closing "$".
RECURSIVE TrimMathSpans(_, _)
TrimMathSpans(s, i) ==
    IF i >= Len(s) THEN << >>
    ELSE LET j == FirstCharIn(s, {"$"}, i + 1)
         IN  IF s[i + 1] = "$" /\ j >= 0 /\ ~HasLineTerminator(s, i + 1, j)
             THEN <<"$">> \o Trim(Sub(s, i + 1, j)) \o <<"$">> \o TrimMathSpans(s, j + 1)
             ELSE <<s[i + 1]>> \o TrimMathSpans(s, i + 1)

\* s.replace(regex, repl) for a global regular expression that matches exactly
\* the texts of the set pats (all of one length), from index i.
RECURSIVE ReplaceAllOf(_, _, _, _)
ReplaceAllOf(s, pats, repl, i) ==
    IF i >= Len(s) THEN << >>
    ELSE LET hit == {p \in pats : StartsAt(s, p, i)}
         IN  IF hit = {} THEN <<s[i + 1]>> \o ReplaceAllOf(s, pats, repl, i + 1)
             ELSE LET p == CHOOSE x \in hit : TRUE
                  IN  GetSubstitution(repl, 1, p, Sub(s, 0, i), Sub(s, i + Len(p), Len(s)))
                      \o ReplaceAllOf(s, pats, repl, i + Len(p))

BSL == "\\"
WhiteSpace == {SP, NL}

removeBlanks(input) ==
    LET r1 == TrimMathSpans(input, 0)
        r2 == ReplaceAllOf(r1, {<<BSL, "[">>}, <<"$", "$", "$">>, 0)
        r3 == ReplaceAllOf(r2, {<<BSL, "]">>}, <<"$", "$", "$">>, 0)
        r4 == ReplaceAllOf(r3, {<<BSL, "(", w>> : w \in WhiteSpace}, <<"$", "$">>, 0)
        r5 == ReplaceAllOf(r4, {<<w, BSL, ")">> : w \in WhiteSpace}, <<"$", "$">>, 0)
        r6 == ReplaceAllOf(r5, {<<BSL, "(">>}, <<"$", "$">>, 0)
    IN  ReplaceAllOf(r6, {<<BSL, ")">>}, <<"$", "$">>, 0)

\* ------------------------------------------------------------ environment
\* The notes of the vault; NoView says that no markdown view is active.
Paths == {"p"}
NoView == "none"

\* The image links the user pastes, and the clipboard contents.
TokA == <<"!", "[", "[", "a", "]", "]">>
TokB == <<"!", "[", "]", "(", "c", ")">>
Clips == {TokA, TokB, TokA \o TokB}

\* What the OCR service reads in the two images: plain words.
PlainAnswers == [a |-> <<"r">>, c |-> <<"s">>]

\* How one processImage call ends: with a recognized text, with null after a
\* notice (file not found, response not ok, empty text), or by throwing
\* (fetch or readBinary rejects).
Outcomes == {"ok", "notfound", "http", "empty", "throw"}

\* ------------------------------------------------------------ persistence
\* The plugin's data file holds one object; loadData() gives null before the
\* first save.  A value that may be missing is a sequence of length 0 or 1:
\* NoData for null and <<object>> for the data object, NoKey for an object
\* without the key processedImagesPerNote and <<ledger>> for one with it.
\* The settings object in memory is such an object too.
NoData == << >>
NoKey == << >>
DEFAULT_SETTINGS == [appId |-> << >>, appKey |-> << >>, processedImagesPerNote |-> NoKey]

\* Array.from(set): the members of the set, each once, in some order.
RECURSIVE ArrayFrom(_)
ArrayFrom(set) ==
    IF set = {} THEN << >>
    ELSE LET x == CHOOSE y \in set : TRUE
         IN  <<x>> \o ArrayFrom(set \ {x})

\* new Set(array)
SetOf(array) == {array[i] : i \in 1..Len(array)}

\* saveProcessedImages: the object given to saveData, the settings spread
\* first and the ledger, every set as an array, under processedImagesPerNote.
SaveProcessedImages(settingsObj, ledger) ==
    <<[settingsObj EXCEPT !.processedImagesPerNote =
        <<[n \in DOMAIN ledger |-> ArrayFrom(ledger[n])]>>]>>

\* saveSettings: the settings object, as it is, given to saveData.
SaveSettings(settingsObj) == <<settingsObj>>

\* loadSettings: Object.assign({}, DEFAULT_SETTINGS, await this.loadData()):
\* every key of the data object, processedImagesPerNote too, lands in settings.
LoadSettings(data) == IF data = NoData THEN DEFAULT_SETTINGS ELSE data[1]

\* loadProcessedImages: the ledger of the data object, every array as a set,
\* or the empty ledger of the constructor.
LoadProcessedImages(data) ==
    IF data # NoData /\ data[1].processedImagesPerNote # NoKey
    THEN [n \in DOMAIN data[1].processedImagesPerNote[1] |->
             SetOf(data[1].processedImagesPerNote[1][n])]
    ELSE << >>

\* The work in flight that the sequence rs of suspended functions holds: the
\* processImage promises not yet settled, and the functions themselves.
InFlight(rs) ==
    [requests |-> Cardinality(UNION {{<<i, j>> : j \in {k \in 1..Len(rs[i].res) :
                                                        rs[i].res[k].st = "pending"}} :
                                     i \in 1..Len(rs)}),
     functions |-> Len(rs)]

\* ------------------------------------------------------------------ state
VARIABLES
    autoOCRMode,              \* this.autoOCRMode
    listeners,                \* number of registered 'editor-change' handlers
    processedImagesPerNote,   \* this.processedImagesPerNote: note path -> set of links
    previousContent,          \* this.previousContent
    docs,                     \* editor.getValue() of the editor of each note
    active,                   \* the note of the active markdown view, or NoView
    events,                   \* 'editor-change' events triggered and not yet handled
    runs,                     \* async functions suspended at await Promise.all(...)
    syncDispatch,             \* whether the host runs the handlers inside setValue
    steps,                    \* number of user gestures so far
    submitted,                \* history: per <<note, link>> the number of processImage
                              \* calls started since the ledger was last emptied
    notice,                   \* the new Notice(...) calls of the step just taken
    settings,                 \* this.settings
    saved,                    \* the object in the plugin's data file, or NoData
    ocrService,               \* result.text of the OCR service for each image
    inflight                  \* how many requests are pending and how many async
                              \* functions are suspended (as runs tells)

vars == <<autoOCRMode, listeners, processedImagesPerNote, previousContent, docs,
          active, events, runs, syncDispatch, steps, submitted, notice, settings, saved,
          ocrService, inflight>>

\* The plugin after onload, the notes still empty; the user may already have
\* clicked the ribbon button once.
Init ==
    /\ autoOCRMode \in BOOLEAN
    /\ listeners = IF autoOCRMode THEN 1 ELSE 0
    /\ processedImagesPerNote = << >>
    /\ previousContent = << >>
    /\ docs = [p \in Paths |-> << >>]
    /\ active = "p"
    /\ events = << >>
    /\ runs = << >>
    /\ syncDispatch \in BOOLEAN
    /\ steps = 0
    /\ submitted = << >>
    /\ notice = << >>
    /\ settings = DEFAULT_SETTINGS
    /\ saved = NoData
    /\ ocrService = PlainAnswers
    /\ inflight = InFlight(runs)

\* result.text of the OCR service for the image a link names (a successful
\* answer; the failures are the other outcomes of a task).
OcrTextOf(imagePath) == IF imagePath = <<"a">> THEN ocrService.a ELSE ocrService.c

\* ------------------------------------------------------------- scheduling
Pending(run) == {j \in 1..Len(run.res) : run.res[j].st = "pending"}

\* A run whose promises are all settled resumes in a microtask, before any
\* other task of the event loop.
TailReady == \E i \in 1..Len(runs) : Pending(runs[i]) = {}

\* With synchronous dispatch the handlers run inside the call that changed
\* the text, so nothing else happens while an event is outstanding.
HandlersFirst == syncDispatch /\ events # << >>

\* A settled request is a new task of the event loop.
TaskMayStart == ~TailReady /\ ~HandlersFirst

\* A user gesture is a new task too; the host has dispatched the events of the
\* gesture before it long before the user makes the next one.
GestureMayStart == TaskMayStart /\ events = << >>

\* workspace.trigger('editor-change', editor): one event for the handlers, if any.
Trigger(evs, ed, by) ==
    IF listeners > 0 THEN Append(evs, [ed |-> ed, by |-> by]) ELSE evs

RemoveAt(seq, i) == Sub(seq, 0, i - 1) \o Sub(seq, i, Len(seq))

\* --------------------------------------------------------------- the ledger
\* if (!this.processedImagesPerNote[path]) this.processedImagesPerNote[path] = new Set()
EnsureNote(ledger, path) ==
    IF path \in DOMAIN ledger THEN ledger
    ELSE [n \in DOMAIN ledger \cup {path} |-> IF n = path THEN {} ELSE ledger[n]]

\* processedImages.has(link) for the set of the note, as the two commands and
\* the change handler ask it before they submit a link.
Has(ledger, path, link) == path \in DOMAIN ledger /\ link \in ledger[path]

\* The matches of a scan for which processedImages.has(fullMatch) is false at
\* their turn; each is added to the set at once, so a link that occurs twice
\* in one scan is taken once.
RECURSIVE NewLinks(_, _, _)
NewLinks(matches, i, processedImages) ==
    IF i > Len(matches) THEN << >>
    ELSE IF matches[i].full \in processedImages
         THEN NewLinks(matches, i + 1, processedImages)
         ELSE <<matches[i]>> \o NewLinks(matches, i + 1, processedImages \cup {matches[i].full})

\* Mutant: the link is marked only when its request has completed.
MarkedLater(ledger, path, links) == ledger

\* Mutant: one set of links for all notes.
MarkedEverywhere(ledger, path, links) ==
    [n \in DOMAIN ledger |-> ledger[n] \cup {links[i].full : i \in 1..Len(links)}]

Marked(ledger, path, links) ==
    [ledger EXCEPT ![path] = @ \cup {links[i].full : i \in 1..Len(links)}]

\* The suspended async function: its kind ("auto": handleEditorChange, "all":
\* ocrAllImagesInNote), the editor and the note path it captured, the text it
\* read at its start, one processImage promise per link, and whether
\* Promise.all has rejected.  clean records that nothing but this run's own
\* write-backs has changed the editor's text since the run started.  wait is
\* where each processImage stands in waitForImageFile: the lookups made so
\* far and whether the last one gave the file.
NewRun(kind, ed, file, content, links) ==
    [kind |-> kind, ed |-> ed, file |-> file, content |-> content,
     links |-> [i \in 1..Len(links) |-> [full |-> links[i].full, path |-> links[i].path]],
     res |-> [i \in 1..Len(links) |-> [st |-> "pending", text |-> << >>]],
     wait |-> [i \in 1..Len(links) |-> [attempt |-> 0, imageFile |-> FALSE]],
     rejected |-> FALSE, clean |-> TRUE]

\* The history of submissions after processImage was called for each of links.
Counted(history, file, links) ==
    LET new == {<<file, links[i].full>> : i \in 1..Len(links)}
    IN  [k \in DOMAIN history \cup new |->
            (IF k \in DOMAIN history THEN history[k] ELSE 0)
            + Cardinality({i \in 1..Len(links) : <<file, links[i].full>> = k})]

Touched(rs, ed, except) ==
    [i \in 1..Len(rs) |->
        IF rs[i].ed = ed /\ i # except THEN [rs[i] EXCEPT !.clean = FALSE] ELSE rs[i]]

\* ---------------------------------------------------------- user gestures
\* The ribbon button: toggleAutoOCRMode with start/stopListeningForChanges.
\* Enabling registers one more handler and snapshots the active editor;
\* disabling empties the ledger, registers nothing off and keeps the snapshot.
\* Mutant: enabling does not snapshot the editor.
ToggleOnNoSnapshot ==
    /\ UNCHANGED <<settings, saved, ocrService>>
    /\ GestureMayStart /\ steps < MaxSteps
    /\ ~autoOCRMode
    /\ autoOCRMode' = TRUE
    /\ listeners' = listeners + 1
    /\ notice' = <<"enabled">>
    /\ steps' = steps + 1
    /\ UNCHANGED <<processedImagesPerNote, previousContent, docs, active, events, runs,
                   syncDispatch, submitted>>
    /\ inflight' = InFlight(runs')

ToggleOn ==
    /\ UNCHANGED <<settings, saved, ocrService>>
    /\ GestureMayStart /\ steps < MaxSteps
    /\ ~autoOCRMode
    /\ autoOCRMode' = TRUE
    /\ listeners' = listeners + 1
    /\ previousContent' = IF active # NoView THEN docs[active] ELSE << >>
    /\ notice' = <<"enabled">>
    /\ steps' = steps + 1
    /\ UNCHANGED <<processedImagesPerNote, docs, active, events, runs, syncDispatch, submitted>>
    /\ inflight' = InFlight(runs')

\* Mutant: disabling drops the requests in flight.
ToggleOffCancels ==
    /\ UNCHANGED <<settings, ocrService>>
    /\ saved' = SaveProcessedImages(settings, << >>)
    /\ GestureMayStart /\ steps < MaxSteps
    /\ autoOCRMode
    /\ autoOCRMode' = FALSE
    /\ processedImagesPerNote' = << >>
    /\ submitted' = << >>
    /\ runs' = << >>
    /\ notice' = <<"disabled">>
    /\ steps' = steps + 1
    /\ UNCHANGED <<listeners, previousContent, docs, active, events, syncDispatch>>
    /\ inflight' = InFlight(runs')

ToggleOff ==
    /\ UNCHANGED <<settings, ocrService>>
    /\ saved' = SaveProcessedImages(settings, << >>)
    /\ GestureMayStart /\ steps < MaxSteps
    /\ autoOCRMode
    /\ autoOCRMode' = FALSE
    /\ processedImagesPerNote' = << >>
    /\ submitted' = << >>
    /\ notice' = <<"disabled">>
    /\ steps' = steps + 1
    /\ UNCHANGED <<listeners, previousContent, docs, active, events, runs, syncDispatch>>
    /\ inflight' = InFlight(runs')

\* The user changes the text of the active editor; the host triggers 'editor-change'.
Edit(text) ==
    /\ UNCHANGED <<settings, saved, ocrService>>
    /\ GestureMayStart /\ steps < MaxSteps
    /\ active # NoView
    /\ text # docs[active]
    /\ Len(text) <= MaxDocLen
    /\ docs' = [docs EXCEPT ![active] = text]
    /\ events' = Trigger(events, active, "user")
    /\ runs' = Touched(runs, active, 0)
    /\ notice' = << >>
    /\ steps' = steps + 1
    /\ UNCHANGED <<autoOCRMode, listeners, processedImagesPerNote, previousContent,
                   active, syncDispatch, submitted>>
    /\ inflight' = InFlight(runs')

\* Paste a clipboard text at the end of the note.
Paste == \E clip \in Clips : Edit(docs[active] \o clip)

\* Type a character at the start of the note.
Type == Edit(<<"x">> \o docs[active])

\* Delete the first occurrence of a link.
Cut == \E tok \in {TokA, TokB} : Edit(JSReplace(docs[active], tok, << >>))

\* Another note, or no note, becomes the active view.
SwitchView ==
    /\ UNCHANGED <<settings, saved, ocrService>>
    /\ GestureMayStart /\ steps < MaxSteps
    /\ \E v \in (DOMAIN docs \cup {NoView}) \ {active} : active' = v
    /\ notice' = << >>
    /\ steps' = steps + 1
    /\ UNCHANGED <<autoOCRMode, listeners, processedImagesPerNote, previousContent, docs,
                   events, runs, syncDispatch, submitted>>
    /\ inflight' = InFlight(runs')

\* ------------------------------------------------------ handleEditorChange
\* One 'editor-change' event: every registered handler runs up to its await.
\* The first handler marks and submits the new links of the added text; a
\* handler that has no promise to wait for (no new link: always so for the
\* second and later handlers of one event) resumes in the next microtask and
\* sets previousContent to the editor's text.
\* Mutant: a change that adds nothing leaves previousContent as it was.
HandleEditorChangeKeepsBaseline ==
    /\ UNCHANGED <<settings, ocrService>>
    /\ events # << >>
    /\ syncDispatch \/ ~TailReady
    /\ events' = Tail(events)
    /\ notice' = << >>
    /\ LET editor == Head(events).ed
           currentContent == docs[editor]
           addedText == getAddedText(previousContent, currentContent)
           ledger == EnsureNote(processedImagesPerNote, active)
           links == NewLinks(ExecAuto(addedText, 0), 1, ledger[active])
       IN  IF active = NoView
           THEN UNCHANGED <<processedImagesPerNote, previousContent, runs, submitted, saved>>
           ELSE IF addedText = << >>
           THEN /\ processedImagesPerNote' = ledger
                /\ UNCHANGED <<previousContent, runs, submitted, saved>>
           ELSE /\ processedImagesPerNote' = Marked(ledger, active, links)
                /\ submitted' = Counted(submitted, active, links)
                /\ runs' = IF links = << >> THEN runs
                           ELSE Append(runs, NewRun("auto", editor, active, currentContent, links))
                /\ previousContent' = IF links = << >> \/ listeners > 1 THEN currentContent
                                      ELSE previousContent
                /\ saved' = IF links = << >> \/ listeners > 1
                            THEN SaveProcessedImages(settings, Marked(ledger, active, links))
                            ELSE saved
    /\ UNCHANGED <<autoOCRMode, listeners, docs, active, syncDispatch, steps>>
    /\ inflight' = InFlight(runs')

\* Mutant: every change has the whole text scanned, and every link in it
\* submitted, whether the note's set has it or not.
HandleEditorChangeRescans ==
    /\ UNCHANGED <<settings, ocrService>>
    /\ events # << >>
    /\ syncDispatch \/ ~TailReady
    /\ events' = Tail(events)
    /\ notice' = << >>
    /\ LET editor == Head(events).ed
           currentContent == docs[editor]
           addedText == getAddedText(previousContent, currentContent)
           ledger == EnsureNote(processedImagesPerNote, active)
           links == NewLinks(ExecAuto(currentContent, 0), 1, {})
       IN  IF active = NoView
           THEN UNCHANGED <<processedImagesPerNote, previousContent, runs, submitted, saved>>
           ELSE IF currentContent = << >>
           THEN /\ processedImagesPerNote' = ledger
                /\ previousContent' = currentContent
                /\ UNCHANGED <<runs, submitted, saved>>
           ELSE /\ processedImagesPerNote' = Marked(ledger, active, links)
                /\ UNCHANGED submitted
                /\ runs' = IF links = << >> THEN runs
                           ELSE Append(runs, NewRun("auto", editor, active, currentContent, links))
                /\ previousContent' = IF links = << >> \/ listeners > 1 THEN currentContent
                                      ELSE previousContent
                /\ saved' = IF links = << >> \/ listeners > 1
                            THEN SaveProcessedImages(settings, Marked(ledger, active, links))
                            ELSE saved
    /\ UNCHANGED <<autoOCRMode, listeners, docs, active, syncDispatch, steps>>
    /\ inflight' = InFlight(runs')

HandleEditorChange ==
    /\ UNCHANGED <<settings, ocrService>>
    /\ events # << >>
    /\ syncDispatch \/ ~TailReady
    /\ events' = Tail(events)
    /\ notice' = << >>
    /\ LET editor == Head(events).ed
           currentContent == docs[editor]
           addedText == getAddedText(previousContent, currentContent)
           ledger == EnsureNote(processedImagesPerNote, active)
           links == NewLinks(ExecAuto(addedText, 0), 1, ledger[active])
       IN  IF active = NoView
           THEN UNCHANGED <<processedImagesPerNote, previousContent, runs, submitted, saved>>
           ELSE IF addedText = << >>
           THEN /\ processedImagesPerNote' = ledger
                /\ previousContent' = currentContent
                /\ UNCHANGED <<runs, submitted, saved>>
           ELSE /\ processedImagesPerNote' = Marked(ledger, active, links)
                /\ submitted' = Counted(submitted, active, links)
                /\ runs' = IF links = << >> THEN runs
                           ELSE Append(runs, NewRun("auto", editor, active, currentContent, links))
                /\ previousContent' = IF links = << >> \/ listeners > 1 THEN currentContent
                                      ELSE previousContent
                /\ saved' = IF links = << >> \/ listeners > 1
                            THEN SaveProcessedImages(settings, Marked(ledger, active, links))
                            ELSE saved
    /\ UNCHANGED <<autoOCRMode, listeners, docs, active, syncDispatch, steps>>
    /\ inflight' = InFlight(runs')

\* --------------------------------------------------------- processImage
\* The result of processImage for an outcome: the link with the text that
\* removeBlanks made of the service's answer, or null.
\* Mutant: an answer without text counts as a recognized, empty text.
SettledAcceptsEmpty(link, outcome) ==
    LET processedText == removeBlanks(OcrTextOf(link.path))
    IN  IF outcome = "ok" /\ processedText # << >> THEN [st |-> "ok", text |-> processedText]
        ELSE IF outcome = "empty" THEN [st |-> "ok", text |-> << >>]
        ELSE IF outcome = "throw" THEN [st |-> "throw", text |-> << >>]
        ELSE [st |-> "null", text |-> << >>]

Settled(link, outcome) ==
    LET processedText == removeBlanks(OcrTextOf(link.path))
    IN  IF outcome = "ok" /\ processedText # << >> THEN [st |-> "ok", text |-> processedText]
        ELSE IF outcome = "throw" THEN [st |-> "throw", text |-> << >>]
        ELSE [st |-> "null", text |-> << >>]

\* The notice processImage (with processImageData) shows for an outcome: one
\* for a file that is not found, for a response that is not ok and for an
\* answer without text; none when fetch or readBinary rejects.
NoticeOf(outcome) ==
    IF outcome \in {"notfound", "http", "empty"} THEN <<outcome>> ELSE << >>

\* The write-back of handleEditorChange's .then callback:
\* editor.setValue(editor.getValue().replace(result.imageLink, result.ocrText)),
\* on the editor's text of that moment, not on the currentContent the handler read.
\* Mutant: the replacement is made in the text the handler read at its start.
WriteBackStale(value, currentContent, imageLink, ocrText) ==
    JSReplace(currentContent, imageLink, ocrText)

WriteBack(value, currentContent, imageLink, ocrText) == JSReplace(value, imageLink, ocrText)

\* editor.replaceSelection(text) for the selection from..to (0-based, to exclusive).
ReplaceSelection(value, range, text) ==
    Sub(value, 0, range.from) \o text \o Sub(value, range.to, Len(value))

\* The editor's selection when ocrSelectedImage comes back from its awaits:
\* the range the user selected if the text was not changed meanwhile;
\* otherwise the change has collapsed the selection to a cursor, at a place
\* that depends on the change.
SelectionNow(run, value) ==
    IF run.clean THEN {[from |-> run.from, to |-> run.to]}
    ELSE {[from |-> at, to |-> at] : at \in 0..Len(value)}

\* One request of a run settles.  In automatic mode the .then callback writes
\* a result back at once; ocrSelectedImage replaces the selection;
\* ocrAllImagesInNote only collects.
TaskDone(i, j, outcome) ==
    /\ UNCHANGED <<settings, saved, ocrService>>
    /\ TaskMayStart
    /\ i \in 1..Len(runs) /\ j \in Pending(runs[i])
    /\ notice' = NoticeOf(outcome)
    /\ LET run == runs[i]
           result == Settled(run.links[j], outcome)
           after == [run EXCEPT !.res[j] = result,
                                !.rejected = @ \/ result.st = "throw"]
       IN  IF run.kind = "auto" /\ result.st = "ok"
           THEN /\ docs' = [docs EXCEPT ![run.ed] =
                                WriteBack(@, run.content, run.links[j].full, result.text)]
                /\ events' = Trigger(events, run.ed, "writeback")
                /\ runs' = Touched([runs EXCEPT ![i] = after], run.ed, i)
           ELSE IF run.kind = "sel" /\ result.st = "ok"
           THEN /\ \E range \in SelectionNow(run, docs[run.ed]) :
                     docs' = [docs EXCEPT ![run.ed] =
                                 ReplaceSelection(@, range, result.text)]
                /\ events' = Trigger(events, run.ed, "sel")
                /\ runs' = Touched([runs EXCEPT ![i] = after], run.ed, i)
           ELSE /\ runs' = [runs EXCEPT ![i] = after]
                /\ UNCHANGED <<docs, events>>
    /\ UNCHANGED <<autoOCRMode, listeners, processedImagesPerNote, previousContent,
                   active, syncDispatch, steps, submitted>>
    /\ inflight' = InFlight(runs')

Settle ==
    \E i \in 1..Len(runs) : \E j \in Pending(runs[i]), outcome \in Outcomes :
        TaskDone(i, j, outcome)

\* ocrAllImagesInNote after its await: every result is replaced in the text
\* read at the start of the command.
RECURSIVE ReplaceResults(_, _, _, _)
ReplaceResults(newContent, links, res, i) ==
    IF i > Len(links) THEN newContent
    ELSE ReplaceResults(IF res[i].st = "ok"
                        THEN JSReplace(newContent, links[i].full, res[i].text)
                        ELSE newContent,
                        links, res, i + 1)

AllContent(run) == ReplaceResults(run.content, run.links, run.res, 1)

\* A run resumes after await Promise.all(...): handleEditorChange sets
\* previousContent to the editor's text; ocrAllImagesInNote writes its new
\* content and sets previousContent to it; ocrSelectedImage, having replaced
\* the selection, sets previousContent to the editor's text.  A run whose
\* await rejected has thrown and does nothing more.
\* Mutant: the tail of handleEditorChange does not update previousContent.
ResumeKeepsBaseline(i) ==
    /\ UNCHANGED <<settings, ocrService>>
    /\ saved' = IF runs[i].rejected \/ (runs[i].kind = "sel" /\ runs[i].res[1].st # "ok")
                THEN saved
                ELSE SaveProcessedImages(settings, processedImagesPerNote)
    /\ i \in 1..Len(runs) /\ Pending(runs[i]) = {}
    /\ ~HandlersFirst
    /\ runs' = IF runs[i].kind = "all" /\ ~runs[i].rejected
               THEN Touched(RemoveAt(runs, i), runs[i].ed, 0)
               ELSE RemoveAt(runs, i)
    /\ LET run == runs[i]
       IN  IF run.rejected
           THEN /\ notice' = << >>
                /\ UNCHANGED <<docs, events, previousContent>>
           ELSE IF run.kind = "auto"
           THEN /\ notice' = << >>
                /\ UNCHANGED <<docs, events, previousContent>>
           ELSE IF run.kind = "sel"
           THEN /\ previousContent' = IF run.res[1].st = "ok" THEN docs[run.ed]
                                      ELSE previousContent
                /\ notice' = << >>
                /\ UNCHANGED <<docs, events>>
           ELSE /\ docs' = [docs EXCEPT ![run.ed] = AllContent(run)]
                /\ events' = Trigger(events, run.ed, "all")
                /\ previousContent' = AllContent(run)
                /\ notice' = <<"summary">>
    /\ UNCHANGED <<autoOCRMode, listeners, processedImagesPerNote, active, syncDispatch,
                   steps, submitted>>
    /\ inflight' = InFlight(runs')

Resume(i) ==
    /\ UNCHANGED <<settings, ocrService>>
    /\ saved' = IF runs[i].rejected \/ (runs[i].kind = "sel" /\ runs[i].res[1].st # "ok")
                THEN saved
                ELSE SaveProcessedImages(settings, processedImagesPerNote)
    /\ i \in 1..Len(runs) /\ Pending(runs[i]) = {}
    /\ ~HandlersFirst
    /\ runs' = IF runs[i].kind = "all" /\ ~runs[i].rejected
               THEN Touched(RemoveAt(runs, i), runs[i].ed, 0)
               ELSE RemoveAt(runs, i)
    /\ LET run == runs[i]
       IN  IF run.rejected
           THEN /\ notice' = << >>
                /\ UNCHANGED <<docs, events, previousContent>>
           ELSE IF run.kind = "auto"
           THEN /\ previousContent' = docs[run.ed]
                /\ notice' = << >>
                /\ UNCHANGED <<docs, events>>
           ELSE IF run.kind = "sel"
           THEN /\ previousContent' = IF run.res[1].st = "ok" THEN docs[run.ed]
                                      ELSE previousContent
                /\ notice' = << >>
                /\ UNCHANGED <<docs, events>>
           ELSE /\ docs' = [docs EXCEPT ![run.ed] = AllContent(run)]
                /\ events' = Trigger(events, run.ed, "all")
                /\ previousContent' = AllContent(run)
                /\ notice' = <<"summary">>
    /\ UNCHANGED <<autoOCRMode, listeners, processedImagesPerNote, active, syncDispatch,
                   steps, submitted>>
    /\ inflight' = InFlight(runs')

ResumeRun == \E i \in 1..Len(runs) : Resume(i)

\* ------------------------------------------------------ ocrAllImagesInNote
\* The command "OCR all images in current note" on the active editor.  With
\* no new link there is nothing to await and the function runs to its end.
OcrAll ==
    /\ UNCHANGED <<settings, ocrService>>
    /\ GestureMayStart /\ steps < MaxSteps
    /\ active # NoView
    /\ LET content == docs[active]
           ledger == EnsureNote(processedImagesPerNote, active)
           links == NewLinks(ExecAll(content, 0), 1, ledger[active])
       IN  /\ processedImagesPerNote' = Marked(ledger, active, links)
           /\ submitted' = Counted(submitted, active, links)
           /\ IF links = << >>
              THEN /\ events' = Trigger(events, active, "all")
                   /\ previousContent' = content
                   /\ notice' = <<"summary">>
                   /\ saved' = SaveProcessedImages(settings, Marked(ledger, active, links))
                   /\ UNCHANGED runs
              ELSE /\ runs' = Append(runs, NewRun("all", active, active, content, links))
                   /\ notice' = << >>
                   /\ UNCHANGED <<events, previousContent, saved>>
    /\ steps' = steps + 1
    /\ UNCHANGED <<autoOCRMode, listeners, docs, active, syncDispatch>>
    /\ inflight' = InFlight(runs')

\* -------------------------------------------------------- ocrSelectedImage
\* The selections the user makes before the command: nothing, the whole
\* text, a link exactly, and a link with one more character before or after it.
Selections(text) ==
    LET found == ExecAuto(text, 0)
        exact == {[from |-> found[k].at, to |-> found[k].end] : k \in 1..Len(found)}
    IN  {[from |-> 0, to |-> 0], [from |-> 0, to |-> Len(text)]}
        \cup exact
        \cup {[from |-> r.from - 1, to |-> r.to] : r \in {e \in exact : e.from > 0}}
        \cup {[from |-> r.from, to |-> r.to + 1] : r \in {e \in exact : e.to < Len(text)}}

\* The command "OCR selected image" on the active editor, up to its first
\* await.  The selection must hold a match of the link pattern somewhere; the
\* key looked up in and added to the note's set is the whole selected text.
OcrSelection ==
    /\ UNCHANGED <<settings, saved, ocrService>>
    /\ GestureMayStart /\ steps < MaxSteps
    /\ active # NoView
    /\ \E range \in Selections(docs[active]) :
        LET selectedText == Sub(docs[active], range.from, range.to)
            found == ExecAuto(selectedText, 0)
            ledger == EnsureNote(processedImagesPerNote, active)
            link == [full |-> selectedText, path |-> found[1].path]
        IN  IF selectedText = << >>
            THEN /\ notice' = <<"noselection">>
                 /\ UNCHANGED <<processedImagesPerNote, runs, submitted>>
            ELSE IF found = << >>
            THEN /\ notice' = <<"invalid">>
                 /\ UNCHANGED <<processedImagesPerNote, runs, submitted>>
            ELSE IF Has(ledger, active, selectedText)
            THEN /\ notice' = <<"already">>
                 /\ processedImagesPerNote' = ledger
                 /\ UNCHANGED <<runs, submitted>>
            ELSE /\ notice' = << >>
                 /\ processedImagesPerNote' = Marked(ledger, active, <<link>>)
                 /\ submitted' = Counted(submitted, active, <<link>>)
                 /\ runs' = Append(runs, NewRun("sel", active, active, docs[active], <<link>>)
                                          @@ [from |-> range.from, to |-> range.to])
    /\ steps' = steps + 1
    /\ UNCHANGED <<autoOCRMode, listeners, previousContent, docs, active, events,
                   syncDispatch>>
    /\ inflight' = InFlight(runs')

QuietOcrAll == runs = << >> /\ OcrAll

Next ==
    \/ ToggleOn
    \/ ToggleOff
    \/ Paste
    \/ Type
    \/ Cut
    \/ SwitchView
    \/ OcrAll
    \/ HandleEditorChange
    \/ Settle
    \/ ResumeRun

Spec == Init /\ [][Next]_vars

\* The plugin with the command for the selected image, in sessions in which
\* the user pastes, types and runs the two commands, a command only when no
\* request is in flight.
QuietOcrSelection == runs = << >> /\ OcrSelection

NextSel ==
    \/ Paste
    \/ Type
    \/ QuietOcrAll
    \/ QuietOcrSelection
    \/ HandleEditorChange
    \/ Settle
    \/ ResumeRun

SpecSel == Init /\ [][NextSel]_vars

\* ------------------------------------------------- settings and restart
\* The values the user types into the fields of the settings tab.
Creds == {<< >>, <<"k">>}

\* The onChange callback of a field of the settings tab: the field of
\* this.settings is set and saveSettings gives the settings object, as it
\* is, to saveData.
ChangeSetting(key) ==
    /\ GestureMayStart /\ steps < MaxSteps
    /\ \E value \in Creds \ {settings[key]} :
            settings' = [settings EXCEPT ![key] = value]
    /\ saved' = SaveSettings(settings')
    /\ notice' = << >>
    /\ steps' = steps + 1
    /\ UNCHANGED <<autoOCRMode, listeners, processedImagesPerNote, previousContent, docs,
                   active, events, runs, syncDispatch, submitted, ocrService>>
    /\ inflight' = InFlight(runs')

ChangeAppId == ChangeSetting("appId")
ChangeAppKey == ChangeSetting("appKey")

\* The plugin is unloaded and loaded again, with nothing in flight.  onunload
\* calls stopListeningForChanges, which empties the ledger and saves it, and
\* saves once more; the host drops the registered handlers.  The new instance
\* starts from the field initializers and onload reads the data file twice,
\* for the settings and for the ledger.
Restart ==
    /\ GestureMayStart /\ steps < MaxSteps
    /\ runs = << >>
    /\ LET unloaded == SaveProcessedImages(settings, << >>)
       IN  /\ saved' = unloaded
           /\ settings' = LoadSettings(unloaded)
           /\ processedImagesPerNote' = LoadProcessedImages(unloaded)
    /\ autoOCRMode' = FALSE
    /\ listeners' = 0
    /\ previousContent' = << >>
    /\ submitted' = << >>
    /\ notice' = << >>
    /\ steps' = steps + 1
    /\ UNCHANGED <<docs, active, events, runs, syncDispatch, ocrService>>
    /\ inflight' = InFlight(runs')

\* The plugin with its data file, in sessions in which the user pastes, runs
\* the command for all images, edits the settings and restarts the plugin.
NextStore ==
    \/ Paste
    \/ QuietOcrAll
    \/ ChangeAppId
    \/ ChangeAppKey
    \/ Restart
    \/ HandleEditorChange
    \/ Settle
    \/ ResumeRun

SpecStore == Init /\ [][NextStore]_vars

\* ------------------------------------------------------- texts as inputs
\* The handler and the command on texts of every shape: a text is made of at
\* most MaxPieces pieces, which are whole links, the two halves of an embed
\* and a plain character.
Pieces == {<<"!", "[", "[">>, <<"a", "]", "]">>, <<"x">>, TokA, TokB}

RECURSIVE PieceSeqs(_)
PieceSeqs(n) ==
    IF n = 0 THEN {<< >>}
    ELSE LET shorter == PieceSeqs(n - 1)
         IN  shorter \cup {Append(ps, p) : ps \in shorter, p \in Pieces}

\* The text of the pieces of ps whose index is in keep, in their order.
RECURSIVE Flat(_, _, _)
Flat(ps, keep, i) ==
    IF i > Len(ps) THEN << >>
    ELSE (IF i \in keep THEN ps[i] ELSE << >>) \o Flat(ps, keep, i + 1)

\* A note whose text was old when the baseline was last taken and is new now,
\* old being new without some of its pieces: in automatic mode, with the
\* event of the change not yet handled, or with automatic mode switched off
\* before the change.
InitText ==
    /\ autoOCRMode \in BOOLEAN
    /\ listeners = IF autoOCRMode THEN 1 ELSE 0
    /\ processedImagesPerNote = << >>
    /\ \E ps \in PieceSeqs(MaxPieces) : \E keep \in SUBSET (1..Len(ps)) :
            /\ previousContent = Flat(ps, keep, 1)
            /\ docs = [p \in Paths |-> Flat(ps, 1..Len(ps), 1)]
    /\ active = "p"
    /\ events = IF autoOCRMode THEN <<[ed |-> "p", by |-> "user"]>> ELSE << >>
    /\ runs = << >>
    /\ syncDispatch = FALSE
    /\ steps = 0
    /\ submitted = << >>
    /\ notice = << >>
    /\ settings = DEFAULT_SETTINGS
    /\ saved = NoData
    /\ ocrService = PlainAnswers
    /\ inflight = InFlight(runs)

\* The scans of such a text: by the change handler, of the added text, and by
\* the command for all images, of the whole text.
NextText ==
    \/ HandleEditorChange
    \/ QuietOcrAll

SpecText == InitText /\ [][NextText]_vars

\* ------------------------------------------------- recognized mathematics
\* The service reads a formula in the image a: a symbol between two
\* delimiters of LaTeX or Markdown (or none), with up to MaxSpaces characters
\* of white space on each side of the symbol.
RECURSIVE Blanks(_)
Blanks(n) ==
    IF n = 0 THEN {<< >>}
    ELSE LET shorter == Blanks(n - 1)
         IN  shorter \cup {Append(b, w) : b \in shorter, w \in WhiteSpace}

Opening == {<< >>, <<"$">>, <<BSL, "(">>, <<BSL, "[">>}
Closing == {<< >>, <<"$">>, <<BSL, ")">>, <<BSL, "]">>}

Formula(open, b1, b2, close) == open \o b1 \o <<"y">> \o b2 \o close

MathTexts ==
    {Formula(open, b1, b2, close) :
        open \in Opening, b1 \in Blanks(MaxSpaces), b2 \in Blanks(MaxSpaces), close \in Closing}

\* A note that holds the link to the image a: pasted in automatic mode, the
\* event not yet handled, or with automatic mode off, before the command for
\* all images.
InitMath ==
    /\ autoOCRMode \in BOOLEAN
    /\ listeners = IF autoOCRMode THEN 1 ELSE 0
    /\ processedImagesPerNote = << >>
    /\ previousContent = << >>
    /\ docs = [p \in Paths |-> TokA]
    /\ active = "p"
    /\ events = IF autoOCRMode THEN <<[ed |-> "p", by |-> "user"]>> ELSE << >>
    /\ runs = << >>
    /\ syncDispatch = FALSE
    /\ steps = 0
    /\ submitted = << >>
    /\ notice = << >>
    /\ settings = DEFAULT_SETTINGS
    /\ saved = NoData
    /\ \E text \in MathTexts : ocrService = [PlainAnswers EXCEPT !.a = text]
    /\ inflight = InFlight(runs)

NextMath ==
    \/ HandleEditorChange
    \/ QuietOcrAll
    \/ Settle
    \/ ResumeRun

SpecMath == InitMath /\ [][NextMath]_vars

\* --------------------------------------------------------- waitForImageFile
\* const maxRetries = 10
maxRetries == 10

\* Mutant: the loop has no limit.
LookupForever(i, j) ==
    /\ TaskMayStart
    /\ i \in 1..Len(runs) /\ j \in Pending(runs[i])
    /\ ~runs[i].wait[j].imageFile
    /\ \E there \in BOOLEAN :
            runs' = [runs EXCEPT ![i].wait[j] =
                        [attempt |-> @.attempt + 1, imageFile |-> there]]
    /\ notice' = << >>
    /\ UNCHANGED <<autoOCRMode, listeners, processedImagesPerNote, previousContent, docs,
                   active, events, syncDispatch, steps, submitted, settings, saved,
                   ocrService>>
    /\ inflight' = InFlight(runs')

\* One pass of the loop of waitForImageFile for request j of run i:
\* getFirstLinkpathDest gives the file or nothing (the vault may still be
\* writing a pasted image); the function returns the file, or sleeps and
\* tries again while attempt < maxRetries.
Lookup(i, j) ==
    /\ TaskMayStart
    /\ i \in 1..Len(runs) /\ j \in Pending(runs[i])
    /\ ~runs[i].wait[j].imageFile
    /\ runs[i].wait[j].attempt < maxRetries
    /\ \E there \in BOOLEAN :
            runs' = [runs EXCEPT ![i].wait[j] =
                        [attempt |-> @.attempt + 1, imageFile |-> there]]
    /\ notice' = << >>
    /\ UNCHANGED <<autoOCRMode, listeners, processedImagesPerNote, previousContent, docs,
                   active, events, syncDispatch, steps, submitted, settings, saved,
                   ocrService>>
    /\ inflight' = InFlight(runs')

Poll == \E i \in 1..Len(runs) : \E j \in Pending(runs[i]) : Lookup(i, j)

\* processImage after waitForImageFile has returned: with the file it goes on
\* to readBinary and the service; with null, which is what the loop returns
\* when it has run maxRetries times, it shows the notice and returns null.
AfterWait(i, j, outcome) ==
    /\ i \in 1..Len(runs) /\ j \in Pending(runs[i])
    /\ IF runs[i].wait[j].imageFile THEN outcome # "notfound"
       ELSE runs[i].wait[j].attempt = maxRetries /\ outcome = "notfound"
    /\ TaskDone(i, j, outcome)

SettleAfterWait ==
    \E i \in 1..Len(runs) : \E j \in Pending(runs[i]), outcome \in Outcomes :
        AfterWait(i, j, outcome)

\* A note that holds pasted links: in automatic mode, the event not yet
\* handled, or with automatic mode off, before the command for all images.
InitWait ==
    /\ autoOCRMode \in BOOLEAN
    /\ listeners = IF autoOCRMode THEN 1 ELSE 0
    /\ processedImagesPerNote = << >>
    /\ previousContent = << >>
    /\ \E clip \in Clips : docs = [p \in Paths |-> clip]
    /\ active = "p"
    /\ events = IF autoOCRMode THEN <<[ed |-> "p", by |-> "user"]>> ELSE << >>
    /\ runs = << >>
    /\ syncDispatch \in BOOLEAN
    /\ steps = 0
    /\ submitted = << >>
    /\ notice = << >>
    /\ settings = DEFAULT_SETTINGS
    /\ saved = NoData
    /\ ocrService = PlainAnswers
    /\ inflight = InFlight(runs)

\* The requests of such a note, the lookups of their image files one by one.
NextWait ==
    \/ HandleEditorChange
    \/ QuietOcrAll
    \/ Poll
    \/ SettleAfterWait
    \/ ResumeRun

SpecWait == InitWait /\ [][NextWait]_vars

\* ------------------------------------------------------- answers with links
\* Images that show the text of an image link: the picture a shows the link
\* to c and the picture c the link to a, so that every write-back puts a
\* link into the note.
EchoAnswers == [a |-> TokB, c |-> TokA]

InitLive ==
    /\ autoOCRMode \in BOOLEAN
    /\ listeners = IF autoOCRMode THEN 1 ELSE 0
    /\ processedImagesPerNote = << >>
    /\ previousContent = << >>
    /\ docs = [p \in Paths |-> << >>]
    /\ active = "p"
    /\ events = << >>
    /\ runs = << >>
    /\ syncDispatch \in BOOLEAN
    /\ steps = 0
    /\ submitted = << >>
    /\ notice = << >>
    /\ settings = DEFAULT_SETTINGS
    /\ saved = NoData
    /\ ocrService \in {PlainAnswers, EchoAnswers}
    /\ inflight = InFlight(runs)

NextLive ==
    \/ ToggleOn
    \/ Paste
    \/ HandleEditorChange
    \/ Settle
    \/ ResumeRun

\* The steps of the program as the scheduler sees them, each with the
\* enabling condition of its action: HandleEditorChange is the one step that
\* takes the first event off the queue, Settle the one that makes the number
\* of pending requests one less, ResumeRun the one that makes the number of
\* suspended functions one less.
Dispatched ==
    /\ events # << >>
    /\ syncDispatch \/ ~TailReady
    /\ events' = Tail(events)

Answered ==
    /\ TaskMayStart
    /\ inflight.requests > 0
    /\ inflight' = [inflight EXCEPT !.requests = @ - 1]

Resumed ==
    /\ TailReady /\ ~HandlersFirst
    /\ inflight' = [inflight EXCEPT !.functions = @ - 1]

\* The host dispatches every event it has queued, the service answers every
\* request, and a function whose promises are settled is resumed: weak
\* fairness of HandleEditorChange, Settle and ResumeRun.
SpecLive ==
    /\ InitLive /\ [][NextLive]_vars
    /\ WF_events(Dispatched)
    /\ WF_inflight(Answered)
    /\ WF_inflight(Resumed)

\* ------------------------------------------------------------- two notes
\* A vault with two notes, both empty, p in the active view; the user has
\* switched automatic mode on.
Notes == {"p", "q"}

InitNotes ==
    /\ autoOCRMode = TRUE
    /\ listeners = 1
    /\ processedImagesPerNote = << >>
    /\ previousContent = << >>
    /\ docs = [n \in Notes |-> << >>]
    /\ active = "p"
    /\ events = << >>
    /\ runs = << >>
    /\ syncDispatch \in BOOLEAN
    /\ steps = 0
    /\ submitted = << >>
    /\ notice = << >>
    /\ settings = DEFAULT_SETTINGS
    /\ saved = NoData
    /\ ocrService = PlainAnswers
    /\ inflight = InFlight(runs)

\* Sessions in which the user pastes links and goes from one note to the
\* other.
NextNotes ==
    \/ Paste
    \/ SwitchView
    \/ HandleEditorChange
    \/ Settle
    \/ ResumeRun

SpecNotes == InitNotes /\ [][NextNotes]_vars

\* ================================================================ claims
\* The text with the first occurrence of link replaced by exactly the
\* characters of text, and unchanged when link does not occur in it.
FirstReplaced(value, link, text) ==
    LET at == IndexOf(value, link)
    IN  IF at < 0 THEN value
        ELSE Sub(value, 0, at) \o text \o Sub(value, at + Len(link), Len(value))

RECURSIVE AllReplaced(_, _, _, _)
AllReplaced(value, links, res, i) ==
    IF i > Len(links) THEN value
    ELSE AllReplaced(FirstReplaced(value, links[i].full, res[i].text), links, res, i + 1)

AllOk(run) == \A j \in 1..Len(run.res) : run.res[j].st = "ok"

\* The step is the .then callback of an automatic run writing a result back.
IsWriteBack(i, j) ==
    /\ i \in 1..Len(runs) /\ j \in Pending(runs[i])
    /\ runs[i].kind = "auto"
    /\ TaskDone(i, j, "ok")

\* C1: between two clearings of the ledger, processImage is started at most
\* once for every note path and link, whatever the interleaving of change
\* events and requests in flight.
C1_SubmittedAtMostOnce == \A k \in DOMAIN submitted : submitted[k] <= 1

\* C1 witness: a second change event has seen the link of a request that is
\* still in flight (the link was pasted again) and has not submitted it again.
C1_Witness ==
    /\ autoOCRMode /\ events = << >>
    /\ docs["p"] = TokA \o TokA
    /\ Len(runs) = 1 /\ runs[1].kind = "auto" /\ runs[1].content = TokA
    /\ Pending(runs[1]) = {1}
    /\ <<"p", TokA>> \in DOMAIN submitted /\ submitted[<<"p", TokA>>] = 1

\* C2: whenever the handler is about to process the change event of one of
\* its own write-backs, the added text it computes is empty (previousContent
\* already equals the text the write-back produced).
C2_WriteBackIsNotAddedText ==
    (/\ events # << >>
     /\ Head(events).by = "writeback"
     /\ syncDispatch \/ ~TailReady
     /\ active # NoView)
    => getAddedText(previousContent, docs[Head(events).ed]) = << >>

\* C3: after every successful write-back, also while other links of the same
\* batch are in flight, previousContent equals the text the write-back
\* produced (the state is taken once the handler's continuation, when it is
\* due in the next microtask, has run).
C3_BaselineFollowsWriteBack ==
    [][\A i \in 1..Len(runs) : \A j \in 1..Len(runs[i].res) :
          (IsWriteBack(i, j) /\ ~TailReady') => previousContent' = docs'[runs[i].ed]]_vars

\* C4: when the requests of a batch of several links have all succeeded, in
\* any order, and nothing else has changed the text meanwhile, the text is the
\* one the handler read with every link replaced by its own recognized text.
C4_NoSubstitutionLost ==
    \A i \in 1..Len(runs) :
        (/\ runs[i].kind = "auto" /\ Len(runs[i].links) >= 2
         /\ AllOk(runs[i]) /\ runs[i].clean)
        => docs[runs[i].ed] = AllReplaced(runs[i].content, runs[i].links, runs[i].res, 1)

\* C4 witness: both requests of a batch of two links have succeeded and both
\* recognized texts stand in the note.
C4_Witness ==
    \E i \in 1..Len(runs) :
        /\ runs[i].kind = "auto" /\ runs[i].clean /\ AllOk(runs[i])
        /\ runs[i].content = TokA \o TokB
        /\ docs[runs[i].ed] = <<"r", "s">>

\* C5: a write-back of automatic mode changes the text the editor holds at
\* that moment, the user's edits made during the request included, only by
\* replacing the first occurrence of the link.
C5_WriteBackKeepsUserEdits ==
    [][\A i \in 1..Len(runs) : \A j \in 1..Len(runs[i].res) :
          IsWriteBack(i, j)
          => docs'[runs[i].ed] = FirstReplaced(docs[runs[i].ed], runs[i].links[j].full,
                                               removeBlanks(OcrTextOf(runs[i].links[j].path)))]_vars

\* C5 witness: the user typed a character while the request was in flight, and
\* the write-back has kept it.
C5_Witness ==
    \E i \in 1..Len(runs) :
        /\ runs[i].kind = "auto" /\ ~runs[i].clean /\ AllOk(runs[i])
        /\ runs[i].content = TokA
        /\ docs[runs[i].ed] = <<"x", "r">>

\* C6: a character the user typed while the requests of "OCR all images" were
\* in flight is still in the note after the command has written its result.
C6_OcrAllKeepsUserEdits ==
    [][\A i \in 1..Len(runs) :
          (Resume(i) /\ runs[i].kind = "all" /\ ~runs[i].rejected /\ Contains(docs[runs[i].ed], <<"x">>))
          => Contains(docs'[runs[i].ed], <<"x">>)]_vars

\* C7: while automatic mode is off, a change event starts no request and
\* changes neither the ledger nor previousContent.
C7_DisabledIgnoresChanges ==
    [][(HandleEditorChange /\ ~autoOCRMode)
       => UNCHANGED <<processedImagesPerNote, previousContent, runs>>]_vars

\* C8: switching automatic mode off cancels no request in flight, and a request
\* that succeeds while the mode is off still replaces its link in the note.
C8_DisableKeepsRequests ==
    [][/\ ToggleOff => runs' = runs
       /\ \A i \in 1..Len(runs) : \A j \in 1..Len(runs[i].res) :
            (IsWriteBack(i, j) /\ ~autoOCRMode)
            => docs'[runs[i].ed] = FirstReplaced(docs[runs[i].ed], runs[i].links[j].full,
                                                 runs'[i].res[j].text)]_vars

\* C8 witness: the mode is off, the ledger was emptied after the link was
\* submitted, and the request has since succeeded and replaced the link.
C8_Witness ==
    /\ ~autoOCRMode
    /\ Len(runs) = 1 /\ runs[1].kind = "auto" /\ AllOk(runs[1])
    /\ runs[1].content = TokA
    /\ processedImagesPerNote = << >>
    /\ docs["p"] = <<"r">>

\* C9: switching automatic mode off empties the ledger and keeps
\* previousContent, and the following re-enable (an enable of a plugin that was
\* enabled before) starts fresh: no link is marked then, so a link submitted
\* before is submitted again when it is newly added.
C9_ReenableStartsFresh ==
    [][/\ ToggleOff => (processedImagesPerNote' = << >> /\ previousContent' = previousContent)
       /\ (ToggleOn /\ listeners > 0)
          => \A n \in DOMAIN processedImagesPerNote' : processedImagesPerNote'[n] = {}]_vars

\* C10: enabling sets previousContent to the text of the active editor, or to
\* the empty text without an active view; so a change event after which the
\* text is previousContent with one typed character in front submits nothing,
\* whatever links previousContent holds.
C10_EnableSnapshotsText ==
    [][/\ ToggleOn => previousContent' = (IF active = NoView THEN << >> ELSE docs[active])
       /\ (HandleEditorChange /\ docs[Head(events).ed] = <<"x">> \o previousContent)
          => runs' = runs]_vars

\* C10 witness: a link was in the note when the mode was enabled; the user then
\* typed a character, the change was handled and the link was not submitted.
C10_Witness ==
    /\ autoOCRMode /\ events = << >> /\ runs = << >>
    /\ docs["p"] = <<"x">> \o TokA
    /\ previousContent = docs["p"]
    /\ "p" \in DOMAIN processedImagesPerNote /\ processedImagesPerNote["p"] = {}
    /\ submitted = << >>

\* C11: a change notification whose added text is empty (a cursor move, a pure
\* deletion) starts no request, marks no link, leaves the text of every note
\* as it is, shows no notice and sets previousContent to the current text.
C11_EmptyAddedTextIsNoOp ==
    [][(/\ HandleEditorChange
        /\ active # NoView
        /\ getAddedText(previousContent, docs[Head(events).ed]) = << >>)
       => /\ runs' = runs
          /\ submitted' = submitted
          /\ \A n \in DOMAIN processedImagesPerNote' :
                processedImagesPerNote'[n] =
                    (IF n \in DOMAIN processedImagesPerNote
                     THEN processedImagesPerNote[n] ELSE {})
          /\ docs' = docs
          /\ notice' = << >>
          /\ previousContent' = docs[Head(events).ed]]_vars

\* The handler is about to run for a pure deletion: the user has cut the link
\* that previousContent still holds, and nothing was added.
C11_Witness ==
    /\ events # << >> /\ Head(events).by = "user"
    /\ syncDispatch \/ ~TailReady
    /\ active = "p"
    /\ previousContent = TokA
    /\ docs["p"] = << >>
    /\ getAddedText(previousContent, docs["p"]) = << >>

\* An automatic run for a note that consisted of exactly one image link, with
\* no write to the editor since but the run's own.
OneLinkRun(run) ==
    /\ run.kind = "auto" /\ run.clean
    /\ Len(run.links) = 1 /\ run.content = run.links[1].full

\* In a session that was never switched off (the history of submissions is
\* that of this session): while the run of the scenario exists its link has
\* been submitted exactly once, and once its answer has arrived the note holds
\* exactly the cleaned text.
EndToEnd ==
    \A i \in 1..Len(runs) :
        (autoOCRMode /\ listeners = 1 /\ OneLinkRun(runs[i]))
        => /\ <<runs[i].file, runs[i].links[1].full>> \in DOMAIN submitted
           /\ submitted[<<runs[i].file, runs[i].links[1].full>>] = 1
           /\ runs[i].res[1].st = "ok"
              => docs[runs[i].ed] = removeBlanks(OcrTextOf(runs[i].links[1].path))

MarkedFor(ledger, path) == IF path \in DOMAIN ledger THEN ledger[path] ELSE {}

\* C13: when the service answers successfully with an empty text, the task
\* fails: the text of every note is left as it is, the notice of the empty
\* answer is shown, the ledger is not changed (in a session that was never
\* switched off the link is still marked), and no later change notification
\* submits a link that is marked.
C13_EmptyResultIsFailure ==
    [][/\ \A i \in 1..Len(runs) : \A j \in 1..Len(runs[i].res) :
            TaskDone(i, j, "empty")
            => /\ docs' = docs
               /\ notice' = <<"empty">>
               /\ runs'[i].res[j].st = "null"
               /\ processedImagesPerNote' = processedImagesPerNote
               /\ (autoOCRMode /\ listeners = 1 /\ runs[i].kind = "auto")
                  => runs[i].links[j].full
                        \in MarkedFor(processedImagesPerNote', runs[i].file)
       /\ HandleEditorChange
          => \A k \in DOMAIN submitted :
                k[2] \in MarkedFor(processedImagesPerNote, k[1])
                => (k \in DOMAIN submitted' /\ submitted'[k] = submitted[k])]_vars

\* The request for the pasted TokA has just ended with an empty answer.
C13_Witness ==
    /\ autoOCRMode /\ listeners = 1
    /\ notice = <<"empty">>
    /\ Len(runs) = 1 /\ runs[1].kind = "auto" /\ runs[1].content = TokA
    /\ runs[1].res[1].st = "null"
    /\ docs["p"] = TokA
    /\ TokA \in MarkedFor(processedImagesPerNote, "p")

\* The text with the link of every successful result replaced by its text.
RECURSIVE OkReplaced(_, _, _, _)
OkReplaced(value, links, res, i) ==
    IF i > Len(links) THEN value
    ELSE OkReplaced(IF res[i].st = "ok"
                    THEN FirstReplaced(value, links[i].full, res[i].text)
                    ELSE value,
                    links, res, i + 1)

\* C14: when a link of a batch fails (file not found, network failure, empty
\* answer) only that link is given up: when the batch (of automatic mode or
\* of the command for all images) has finished, with no other write to the
\* note, every link of it that succeeded is replaced in the note, and the
\* ledger still holds what it held.
C14_FailureIsolation ==
    [][\A i \in 1..Len(runs) :
        (Resume(i) /\ runs[i].kind \in {"auto", "all"} /\ runs[i].clean
         /\ ~AllOk(runs[i]))
        => /\ docs'[runs[i].ed] =
                OkReplaced(runs[i].content, runs[i].links, runs[i].res, 1)
           /\ processedImagesPerNote' = processedImagesPerNote]_vars

\* C15: every kind of failure of a request of automatic mode, a transport
\* failure of the call to the service included, is recovered by the task that
\* met it: a notice is shown, no error leaves the change handler (its
\* Promise.all does not reject), automatic mode stays as it is, and the
\* handler still runs its tail, which sets previousContent to the note's text.
C15_FailuresRecoveredLocally ==
    [][/\ \A i \in 1..Len(runs) : \A j \in 1..Len(runs[i].res) :
          \A outcome \in Outcomes \ {"ok"} :
            (TaskDone(i, j, outcome) /\ runs[i].kind = "auto")
            => /\ notice' # << >>
               /\ ~runs'[i].rejected
               /\ autoOCRMode' = autoOCRMode
       /\ \A i \in 1..Len(runs) :
            (Resume(i) /\ runs[i].kind = "auto")
            => previousContent' = docs[runs[i].ed]]_vars

\* C16: after a submission of automatic mode has failed, the user can retry
\* by hand: when the handler that submitted the link has finished and the note
\* still holds the link, the commands for the selected image and for all
\* images, which skip a link that the note's set has, do not skip that link.
C16_ManualRetryAfterFailure ==
    [][\A i \in 1..Len(runs) : \A j \in 1..Len(runs[i].res) :
        (/\ Resume(i) /\ runs[i].kind = "auto"
         /\ runs[i].res[j].st # "ok"
         /\ Contains(docs'[runs[i].ed], runs[i].links[j].full))
        => ~Has(processedImagesPerNote', runs[i].file, runs[i].links[j].full)]_vars

\* The ledger marks the same links for every note.
SameMarks(ledger1, ledger2) ==
    \A n \in DOMAIN ledger1 \cup DOMAIN ledger2 :
        MarkedFor(ledger1, n) = MarkedFor(ledger2, n)

\* C17: the command for the selected image neither reads nor changes the
\* ledger and does not change previousContent, whether it succeeds or fails:
\* no step of it (the start of the command, the arrival of its answer, its
\* tail) changes the marks or previousContent, and it never refuses a
\* selection because the ledger marks it.
C17_SelectionLeavesLedgerAndBaseline ==
    [][/\ OcrSelection
          => /\ SameMarks(processedImagesPerNote', processedImagesPerNote)
             /\ previousContent' = previousContent
             /\ notice' # <<"already">>
       /\ \A i \in 1..Len(runs) :
            (/\ runs[i].kind = "sel"
             /\ Resume(i) \/ \E outcome \in Outcomes : TaskDone(i, 1, outcome))
            => /\ SameMarks(processedImagesPerNote', processedImagesPerNote)
               /\ previousContent' = previousContent]_vars

\* The text is one well-formed image link and nothing else.
IsOneLink(text) ==
    LET found == ExecAuto(text, 0)
    IN  Len(found) = 1 /\ found[1].full = text

\* C18: the command for the selected image accepts a selection only when it
\* is exactly one well-formed image link; for any other selection (empty,
\* without a link, a link with other text around it) it shows a notice and
\* submits nothing; in no case does the start of the command change the text.
C18_SelectionMustBeExactlyOneLink ==
    [][OcrSelection
       => /\ docs' = docs
          /\ IF runs' = runs
             THEN notice' # << >> /\ submitted' = submitted
             ELSE IsOneLink(runs'[Len(runs')].links[1].full)]_vars

\* C19: the command for all images, on a note of which some links succeed and
\* some fail, shows one failure notice for each link that fails and, when all
\* have been answered, replaces exactly the links that succeeded (the text
\* not having been changed meanwhile), leaves the failed links as they are
\* and shows exactly one summary notice.
C19_OcrAllReplacesSuccessesOnly ==
    [][\A i \in 1..Len(runs) :
        runs[i].kind = "all"
        => /\ \A j \in 1..Len(runs[i].res) : \A outcome \in Outcomes \ {"ok"} :
                TaskDone(i, j, outcome) => Len(notice') = 1
           /\ (Resume(i) /\ runs[i].clean)
              => /\ docs'[runs[i].ed] =
                      OkReplaced(runs[i].content, runs[i].links, runs[i].res, 1)
                 /\ notice' = <<"summary">>]_vars

\* How often the link was submitted for the note since the ledger was emptied.
TimesSubmitted(history, path, link) ==
    IF <<path, link>> \in DOMAIN history THEN history[<<path, link>>] ELSE 0

\* C20: the deduplication of the command for all images is local to one
\* invocation: every link of the note, also one that an earlier pass or the
\* change handler has submitted, is submitted exactly once by the pass, however
\* often it occurs, and the pass does not change the marks of the ledger that
\* automatic mode consults.
C20_OcrAllDedupIsLocal ==
    [][OcrAll
       => /\ \A k \in 1..Len(ExecAll(docs[active], 0)) :
                TimesSubmitted(submitted', active, ExecAll(docs[active], 0)[k].full)
                = TimesSubmitted(submitted, active, ExecAll(docs[active], 0)[k].full) + 1
          /\ SameMarks(processedImagesPerNote', processedImagesPerNote)]_vars

\* C21: the ledger survives a restart: when the plugin has been unloaded and
\* loaded again, every link that was marked for a note before is still marked,
\* and the ledger read from the data file is the one of before the unload.
C21_LedgerSurvivesRestart ==
    [][Restart
       => /\ SameMarks(processedImagesPerNote', processedImagesPerNote)
          /\ SameMarks(LoadProcessedImages(saved'), processedImagesPerNote)]_vars

\* C22: the links the change handler finds in the added text and that do not
\* occur in the baseline are links of the note's text: the added text, which
\* is the insertions joined together, holds no link that the text does not.
C22_AddedLinksAreLinksOfText ==
    [][HandleEditorChange /\ active # NoView
       => LET t1 == previousContent
              t2 == docs[Head(events).ed]
              found == ExecAuto(getAddedText(t1, t2), 0)
              inText == ExecAuto(t2, 0)
          IN  \A k \in 1..Len(found) :
                ~Contains(t1, found[k].full)
                => \E m \in 1..Len(inText) : inText[m].full = found[k].full]_vars

\* C23: the diff of a text with itself is empty, so the change handler that
\* finds the text equal to the baseline submits nothing.
C23_DiffOfEqualTextsIsEmpty ==
    [][HandleEditorChange /\ active # NoView
       => LET t == docs[Head(events).ed]
          IN  /\ getAddedText(t, t) = << >>
              /\ previousContent = t
                 => /\ runs' = runs
                    /\ submitted' = submitted
                    /\ \A path \in Paths :
                         MarkedFor(processedImagesPerNote', path)
                            = MarkedFor(processedImagesPerNote, path)]_vars

\* The handler has run on a text with a link that is equal to the baseline.
C23_Witness ==
    /\ autoOCRMode /\ events = << >>
    /\ previousContent = docs["p"]
    /\ Contains(docs["p"], TokA)
    /\ runs = << >> /\ submitted = << >>

\* What a scan that gave found says about the scanned text s: every match
\* lies in s where it says, its token is the text of s there, and each match
\* starts at or after the end of the one before it.
InOrderAndApart(s, found) ==
    /\ \A k \in 1..Len(found) :
          /\ found[k].ok
          /\ 0 <= found[k].at /\ found[k].at < found[k].end /\ found[k].end <= Len(s)
          /\ found[k].full = Sub(s, found[k].at, found[k].end)
    /\ \A k \in 1..(Len(found) - 1) : found[k].end <= found[k + 1].at

\* An embed, something without a link, and a markdown image link.
EmbedThenLink(s) == \E between \in {<< >>, <<"x">>} : s = TokA \o between \o TokB

PathsInOrder(s, found) ==
    EmbedThenLink(s)
    => /\ Len(found) = 2
       /\ found[1].full = TokA /\ found[1].path = <<"a">>
       /\ found[2].full = TokB /\ found[2].path = <<"c">>

\* C24: a scan gives the links of the scanned text from left to right, no two
\* of them overlapping, each token being the text at its place; of an embed
\* followed by a markdown link it gives these two, with their paths, in this
\* order.  Checked on the scan of the change handler (of the added text) and
\* on the scan of the command for all images (of the note's text).
C24_ScanInOrderWithoutOverlap ==
    [][/\ HandleEditorChange /\ active # NoView
          => LET s == getAddedText(previousContent, docs[Head(events).ed])
             IN  InOrderAndApart(s, ExecAuto(s, 0)) /\ PathsInOrder(s, ExecAuto(s, 0))
       /\ QuietOcrAll
          => LET s == docs[active]
             IN  InOrderAndApart(s, ExecAll(s, 0)) /\ PathsInOrder(s, ExecAll(s, 0))]_vars

\* The handler has scanned an added text that is an embed followed by a
\* markdown link, and has submitted both.
C24_Witness ==
    /\ autoOCRMode /\ events = << >>
    /\ previousContent = << >> /\ docs["p"] = TokA \o TokB
    /\ Len(runs) = 1 /\ runs[1].kind = "auto" /\ Len(runs[1].links) = 2
    /\ runs[1].links[1].path = <<"a">> /\ runs[1].links[2].path = <<"c">>

\* The token of a match opens once, at its start: no "![" begins inside it.
OneOpening(full) == \A i \in 1..(Len(full) - 1) : ~StartsAt(full, <<"!", "[">>, i)

\* C25: an opening that is never closed is matched by no scan, not even
\* inside a larger match: the token of every match holds one opening, its
\* own.  Checked on the scan of the change handler and on the scan of the
\* command for all images.
C25_UnterminatedNeverMatched ==
    [][/\ HandleEditorChange /\ active # NoView
          => LET found == ExecAuto(getAddedText(previousContent, docs[Head(events).ed]), 0)
             IN  \A k \in 1..Len(found) : OneOpening(found[k].full)
       /\ QuietOcrAll
          => LET found == ExecAll(docs[active], 0)
             IN  \A k \in 1..Len(found) : OneOpening(found[k].full)]_vars

\* C26: removeBlanks applied to a text it has made gives that text again.
\* Checked on the text of every successful request.
C26_RemoveBlanksIdempotent ==
    [][\A i \in 1..Len(runs) : \A j \in Pending(runs[i]) :
          TaskDone(i, j, "ok")
          => LET once == removeBlanks(OcrTextOf(runs[i].links[j].path))
             IN  removeBlanks(once) = once]_vars

\* The text holds none of the LaTeX delimiters \( \) \[ \].
NoLatexDelimiter(text) ==
    \A i \in 0..(Len(text) - 2) :
        ~(text[i + 1] = BSL /\ text[i + 2] \in {"(", ")", "[", "]"})

\* C27: removeBlanks turns every \( ... \) into $...$ without the white
\* space next to the delimiters, however long the runs of white space are,
\* and every \[ and \] into $$; its result holds no LaTeX delimiter.
\* Checked on the text of every successful request.
C27_LatexDelimitersConverted ==
    [][\A i \in 1..Len(runs) : \A j \in Pending(runs[i]) :
          TaskDone(i, j, "ok")
          => LET raw == OcrTextOf(runs[i].links[j].path)
                 out == removeBlanks(raw)
             IN  /\ NoLatexDelimiter(out)
                 /\ \A b1 \in Blanks(MaxSpaces), b2 \in Blanks(MaxSpaces) :
                      /\ raw = Formula(<<BSL, "(">>, b1, b2, <<BSL, ")">>)
                         => out = <<"$", "y", "$">>
                      /\ raw = Formula(<<BSL, "[">>, b1, b2, <<BSL, "]">>)
                         => out = <<"$", "$">> \o b1 \o <<"y">> \o b2 \o <<"$", "$">>]_vars

\* C30: a write-back that succeeds changes the editor's text only by putting
\* the text removeBlanks made of the answer, character for character, in the
\* place of the first occurrence of the link, whatever characters the answer
\* holds; so does the command for all images with the text it read.
C30_WriteBackInsertsTheTextItself ==
    [][\A i \in 1..Len(runs) :
          /\ \A j \in 1..Len(runs[i].res) :
                IsWriteBack(i, j)
                => docs'[runs[i].ed] =
                      FirstReplaced(docs[runs[i].ed], runs[i].links[j].full,
                                    removeBlanks(OcrTextOf(runs[i].links[j].path)))
          /\ (Resume(i) /\ runs[i].kind = "all" /\ AllOk(runs[i]))
             => docs'[runs[i].ed] =
                   AllReplaced(runs[i].content, runs[i].links, runs[i].res, 1)]_vars

\* C28: waitForImageFile looks the file up at most maxRetries times and not
\* again once a lookup has given the file; when the last lookup has failed the
\* request ends as "not found": processImage shows that notice and returns
\* null, and the step is not the end of a request that went on to read the
\* file and call the service.
C28_BoundedPolling ==
    [][\A i \in 1..Len(runs) : \A j \in Pending(runs[i]) :
          /\ Lookup(i, j)
             => /\ ~runs[i].wait[j].imageFile
                /\ runs[i].wait[j].attempt < maxRetries
                /\ runs'[i].wait[j].attempt <= maxRetries
          /\ \A outcome \in Outcomes :
                (AfterWait(i, j, outcome) /\ ~runs[i].wait[j].imageFile)
                => /\ runs[i].wait[j].attempt = maxRetries
                   /\ notice' = <<"notfound">>
                   /\ runs'[i].res[j].st = "null"
                   /\ docs' = docs
                   /\ \A other \in Outcomes \ {"notfound"} : ~TaskDone(i, j, other)]_vars

\* A request has ended as "not found" after maxRetries failed lookups.
C28_Witness ==
    \E i \in 1..Len(runs) : \E j \in 1..Len(runs[i].res) :
        /\ runs[i].wait[j].attempt = maxRetries /\ ~runs[i].wait[j].imageFile
        /\ runs[i].res[j].st = "null"
        /\ notice = <<"notfound">>

\* Nothing is queued and nothing is in flight.
Quiescent == events = << >> /\ runs = << >>

\* C29: when the user has stopped (after at most MaxSteps gestures), every
\* event is handled, every request is answered and every function resumed
\* after finitely many steps, and it stays so: the write-backs of the plugin
\* start only finitely many handler runs and submissions, also when the
\* texts written back hold links themselves.
C29_EventuallyQuiescent == <>[]Quiescent

\* The write-back for the pasted link to a has put the link to c into the
\* note, the handler has submitted that link too, and all has come to rest.
C29_Witness ==
    /\ Quiescent /\ autoOCRMode /\ ocrService = EchoAnswers
    /\ <<"p", TokA>> \in DOMAIN submitted /\ <<"p", TokB>> \in DOMAIN submitted
    /\ steps = 1

\* C31: after any sequence of toggles exactly one 'editor-change' handler is
\* registered while automatic mode is on and none while it is off.
C31_OneListenerWhenEnabled == listeners = IF autoOCRMode THEN 1 ELSE 0

\* The user has added the link tok to the note while automatic mode was on:
\* the event of the user's change is queued, the note holds tok, the text of
\* the last baseline does not, and the note's set has not got it.
UserAdded(tok) ==
    /\ autoOCRMode /\ ocrService = PlainAnswers
    /\ events # << >> /\ events[Len(events)].by = "user"
    /\ Contains(docs["p"], tok) /\ ~Contains(previousContent, tok)
    /\ ~Has(processedImagesPerNote, "p", tok)

\* processImage has been called for the link tok of note p.
Submitted(tok) == <<"p", tok>> \in DOMAIN submitted

\* C32: a link the user adds to the note while automatic mode is on, and
\* which is not marked yet, is submitted to OCR in the end, however the
\* user's change, the dispatch of its event and the completion of the
\* requests in flight are interleaved.
C32_NoMissedDetection == \A tok \in {TokA, TokB} : UserAdded(tok) ~> Submitted(tok)

\* C33: whenever automatic mode is on, no request is in flight and every
\* event has been handled to its end, previousContent is the text of the
\* active note.
C33_QuiescentBaseline ==
    (autoOCRMode /\ active # NoView /\ Quiescent) => previousContent = docs[active]

\* C34: when the user has deleted a link from the note while its request was
\* in flight, the write-back of the recognized text leaves every character of
\* the note as it is, and the link stays marked in the note's set: neither
\* the deletion nor the write-back takes a mark away (only switching
\* automatic mode off empties the sets).
C34_WriteBackOfDeletedLink ==
    [][/\ \A i \in 1..Len(runs) : \A j \in 1..Len(runs[i].res) :
            (IsWriteBack(i, j) /\ ~Contains(docs[runs[i].ed], runs[i].links[j].full))
            => /\ docs' = docs
               /\ processedImagesPerNote' = processedImagesPerNote
       /\ ~ToggleOff
          => \A n \in DOMAIN processedImagesPerNote :
                /\ n \in DOMAIN processedImagesPerNote'
                /\ processedImagesPerNote[n] \subseteq processedImagesPerNote'[n]]_vars

\* C34 witness: the link to a was pasted, submitted and cut out again; its
\* request has succeeded, the note is still empty and the link still marked.
C34_Witness ==
    \E i \in 1..Len(runs) :
        /\ runs[i].kind = "auto" /\ runs[i].links[1].full = TokA
        /\ runs[i].res[1] = [st |-> "ok", text |-> <<"r">>]
        /\ docs[runs[i].ed] = << >>
        /\ Has(processedImagesPerNote, runs[i].file, TokA)

\* The links of note n for which processImage is called in the step.
SubmittedNow(n) ==
    {k[2] : k \in {k \in DOMAIN submitted' :
                     /\ k[1] = n
                     /\ k \notin DOMAIN submitted \/ submitted'[k] > submitted[k]}}

\* C35: the handler, run for a change while note p is the active one, leaves
\* the set of every other note as it is, so that a link marked for p is not
\* thereby marked for q; and the set of a note that had none is made empty
\* at the first change event for it, before the links submitted in that very
\* run are added.
C35_LedgerPerNote ==
    [][(HandleEditorChange /\ active # NoView)
       => /\ DOMAIN processedImagesPerNote' = DOMAIN processedImagesPerNote \cup {active}
          /\ \A n \in DOMAIN processedImagesPerNote \ {active} :
                processedImagesPerNote'[n] = processedImagesPerNote[n]
          /\ active \notin DOMAIN processedImagesPerNote
             => processedImagesPerNote'[active] = SubmittedNow(active)]_vars

\* C35 witness: the same link was pasted into p and then into q, and was
\* marked and submitted for each of the two notes.
C35_Witness ==
    /\ Has(processedImagesPerNote, "p", TokA) /\ Has(processedImagesPerNote, "q", TokA)
    /\ <<"p", TokA>> \in DOMAIN submitted /\ <<"q", TokA>> \in DOMAIN submitted
    /\ submitted[<<"p", TokA>>] = 1 /\ submitted[<<"q", TokA>>] = 1

\* The credentials of a settings object.
Credentials(settingsObj) == <<settingsObj.appId, settingsObj.appKey>>

\* The step saves the settings: a field of the settings tab was changed.
IsSettingsSave == ChangeAppId \/ ChangeAppKey

\* C36: a save of the settings leaves in the data file the marks of the
\* ledger in memory, a save of the ledger leaves the credentials in the
\* data file as they were, and what a reload would give is at every moment
\* the latest credentials.
C36_SavesDoNotDisturb ==
    [][/\ (IsSettingsSave /\ SameMarks(LoadProcessedImages(saved), processedImagesPerNote))
          => SameMarks(LoadProcessedImages(saved'), processedImagesPerNote')
       /\ ~IsSettingsSave
          => Credentials(LoadSettings(saved')) = Credentials(LoadSettings(saved))
       /\ Credentials(LoadSettings(saved')) = Credentials(settings')]_vars

\* The tokens and paths of the matches of a scan, in their order.
TokensAndPaths(found) == [k \in 1..Len(found) |-> <<found[k].full, found[k].path>>]

\* The two scanners give the same tokens and paths for the text s, and no
\* empty path.
ScannersAgree(s) ==
    /\ TokensAndPaths(ExecAuto(s, 0)) = TokensAndPaths(ExecAll(s, 0))
    /\ \A k \in 1..Len(ExecAuto(s, 0)) : ExecAuto(s, 0)[k].path # << >>
    /\ \A k \in 1..Len(ExecAll(s, 0)) : ExecAll(s, 0)[k].path # << >>

\* C37: the scan of the change handler and the scan of the command for all
\* images recognize the same links: for the text either of them is run on
\* (the added text, the note's text) both give the same sequence of tokens
\* and paths, and every path has at least one character.
C37_ScannersRecognizeTheSame ==
    [][/\ HandleEditorChange /\ active # NoView
          => ScannersAgree(getAddedText(previousContent, docs[Head(events).ed]))
       /\ QuietOcrAll
          => ScannersAgree(docs[active])]_vars

====
